---- MODULE Spec2Model ----
(***************************************************************************)
(* Quick Task (Tasky): the task block parser / serializer of taskParser.ts *)
(* and the file modifications of main.ts (insertTask, replaceTask,         *)
(* deleteTask, toggleDone) that splice its output into a document.         *)
(*                                                                         *)
(* A JavaScript string is modelled as a sequence of characters, each       *)
(* character being a one-character TLA+ string.  The three priority glyphs *)
(* are written by their code points ("U+1F53A", "U+23EB", "U+23EC"), each  *)
(* standing for one character.  An optional field (undefined in the        *)
(* source) is a sequence of length 0 (None) or 1 (Some(v)).                *)
(***************************************************************************)
EXTENDS Integers, Sequences, FiniteSets, TLC

(***************************************************************************)
(* Characters and character classes of the regular expressions.            *)
(***************************************************************************)
LF == "\n"
CR == "\r"
WS == {" ", "\t", LF, CR}

UpperSeq == <<"A","B","C","D","E","F","G","H","I","J","K","L","M",
              "N","O","P","Q","R","S","T","U","V","W","X","Y","Z">>
LowerSeq == <<"a","b","c","d","e","f","g","h","i","j","k","l","m",
              "n","o","p","q","r","s","t","u","v","w","x","y","z">>
Digits == {"0","1","2","3","4","5","6","7","8","9"}
Letters == {UpperSeq[k] : k \in 1..26} \cup {LowerSeq[k] : k \in 1..26}

\* String.prototype.toLowerCase / the i flag, on one character
Lower(c) ==
  IF \E k \in 1..26 : UpperSeq[k] = c
  THEN LowerSeq[CHOOSE k \in 1..26 : UpperSeq[k] = c]
  ELSE c

\* [A-Za-z0-9/_-]
TagChar == Letters \cup Digits \cup {"/", "_", "-"}
\* [A-Za-z0-9_-]
KeyChar == Letters \cup Digits \cup {"_", "-"}
\* \w, which decides \b
WordChar == Letters \cup Digits \cup {"_"}
\* [ xX\-]
BoxChar == {" ", "x", "X", "-"}

GlyphHigh == "U+1F53A"
GlyphMedium == "U+23EB"
GlyphLow == "U+23EC"
Glyphs == {GlyphHigh, GlyphMedium, GlyphLow}

None == <<>>
Some(v) == <<v>>

\* literal strings of the source
sTodo == <<"t","o","d","o">>
sInProgress == <<"i","n","-","p","r","o","g","r","e","s","s">>
sDone == <<"d","o","n","e">>
sCancelled == <<"c","a","n","c","e","l","l","e","d">>
sCancel == <<"c","a","n","c","e","l">>
sIn == <<"i","n">>
sProgress == <<"p","r","o","g","r","e","s","s">>
sHigh == <<"H","i","g","h">>
sMedium == <<"M","e","d","i","u","m">>
sLow == <<"L","o","w">>
sUntitled == <<"<","u","n","t","i","t","l","e","d"," ","t","a","s","k",">">>
sDescription == <<"d","e","s","c","r","i","p","t","i","o","n">>
sCreated == <<"c","r","e","a","t","e","d">>
sDue == <<"d","u","e">>
sPriority == <<"p","r","i","o","r","i","t","y">>
sStatus == <<"s","t","a","t","u","s">>
sCompleted == <<"c","o","m","p","l","e","t","e","d">>
\* type Priority and type Status
Priorities == {sLow, sMedium, sHigh}
Statuses == {sTodo, sInProgress, sDone, sCancelled}
\* the checkbox tokens "[ ]" and "[x]"
sOpenBox == <<"[", " ", "]">>
sCheckedBox == <<"[", "x", "]">>

(***************************************************************************)
(* String helpers.                                                         *)
(***************************************************************************)
\* F applied to the value of x, as a "const" of the source binds a value:
\* x is evaluated once, before F
OnValue(F(_), x) == CHOOSE r \in {F(v) : v \in {x}} : TRUE

Range(q) == {q[k] : k \in 1..Len(q)}

\* s.toLowerCase()
LowerStr(s) == [k \in 1..Len(s) |-> Lower(s[k])]

\* the literal pat (lower case) occurs in s at position p, letter case ignored
AtCI(s, p, pat) ==
  /\ p >= 1
  /\ p + Len(pat) - 1 <= Len(s)
  /\ \A k \in 1..Len(pat) : Lower(s[p + k - 1]) = pat[k]

\* the literal pat occurs in s at position p
At(s, p, pat) ==
  /\ p >= 1
  /\ p + Len(pat) - 1 <= Len(s)
  /\ \A k \in 1..Len(pat) : s[p + k - 1] = pat[k]

\* s.includes(pat)
Includes(s, pat) == \E p \in 1..(Len(s) + 1) : At(s, p, pat)

\* first position >= p of s that is not in class C (Len(s)+1 when none):
\* the end of a greedy C* started at p
SkipClass(s, p, C) ==
  LET stop == {q \in p..Len(s) : s[q] \notin C}
  IN  IF stop = {} THEN Len(s) + 1
      ELSE CHOOSE q \in stop : \A r \in stop : q <= r

\* s.trim()
Trim(s) ==
  LET ink == {k \in 1..Len(s) : s[k] \notin WS}
  IN  IF ink = {} THEN <<>>
      ELSE SubSeq(s, CHOOSE a \in ink : \A b \in ink : a <= b,
                     CHOOSE a \in ink : \A b \in ink : a >= b)

\* a.join(sep) for an array of strings
RECURSIVE Join(_, _)
Join(a, sep) ==
  IF Len(a) = 0 THEN <<>>
  ELSE IF Len(a) = 1 THEN a[1]
  ELSE a[1] \o sep \o Join(Tail(a), sep)

\* content.split("\n")
RECURSIVE SplitLF(_)
SplitLF(s) ==
  LET nl == {k \in 1..Len(s) : s[k] = LF}
  IN  IF nl = {} THEN <<s>>
      ELSE LET p == CHOOSE a \in nl : \A b \in nl : a <= b
           IN  <<SubSeq(s, 1, p - 1)>> \o SplitLF(SubSeq(s, p + 1, Len(s)))

\* content.split(/\r?\n/): a CR right before the LF belongs to the separator
SplitCRLF(s) ==
  LET raw == SplitLF(s)
  IN  [k \in 1..Len(raw) |->
         IF k < Len(raw) /\ Len(raw[k]) > 0 /\ raw[k][Len(raw[k])] = CR
         THEN SubSeq(raw[k], 1, Len(raw[k]) - 1)
         ELSE raw[k]]

(***************************************************************************)
(* parseTasks (taskParser.ts).  Line indices are 0-based as in the source; *)
(* LineAt(lines, i) is lines[i].                                           *)
(***************************************************************************)
LineAt(lines, i) == lines[i + 1]

\* "." of a regular expression without the s flag
NoLineBreak(s, p) == \A k \in p..Len(s) : s[k] \notin {LF, CR}

\* /^\s*-\s*\[([ xX\-])\]\s*(.*)$/.exec(line): None when there is no match,
\* else Some([box |-> match[1], rest |-> match[2]])
MatchChecklist(line) ==
  LET p1 == SkipClass(line, 1, WS)
      p2 == SkipClass(line, p1 + 1, WS)
      p3 == SkipClass(line, p2 + 3, WS)
  IN  IF /\ p1 <= Len(line)
         /\ line[p1] = "-"
         /\ p2 + 2 <= Len(line)
         /\ line[p2] = "["
         /\ line[p2 + 1] \in BoxChar
         /\ line[p2 + 2] = "]"
         /\ NoLineBreak(line, p3)
      THEN Some([box |-> line[p2 + 1], rest |-> SubSeq(line, p3, Len(line))])
      ELSE None

\* a match of /#([A-Za-z0-9/_-]+)/ starts at position p of s
TagAt(s, p) == p + 1 <= Len(s) /\ s[p] = "#" /\ s[p + 1] \in TagChar

\* rest.matchAll(/#([A-Za-z0-9/_-]+)/g), each match as `#${t[1]}`
RECURSIVE TagMatches(_, _)
TagMatches(s, p) ==
  IF p > Len(s) THEN <<>>
  ELSE IF TagAt(s, p)
       THEN LET e == SkipClass(s, p + 1, TagChar)
            IN  <<SubSeq(s, p, e - 1)>> \o TagMatches(s, e)
       ELSE TagMatches(s, p + 1)

\* SetOrder without the Set: every match is kept
SetOrderKeepAll(a) == a

\* Array.from(new Set(a)): first occurrences, in insertion order
RECURSIVE SetOrder(_)
SetOrder(a) ==
  IF Len(a) = 0 THEN <<>>
  ELSE LET d == SetOrder(SubSeq(a, 1, Len(a) - 1))
       IN  IF a[Len(a)] \in Range(d) THEN d ELSE Append(d, a[Len(a)])

\* the tags of a checklist line's remainder
Tags(rest) == SetOrder(TagMatches(rest, 1))

\* .replace(/#([A-Za-z0-9/_-]+)/g, "")
RECURSIVE StripTags(_, _)
StripTags(s, p) ==
  IF p > Len(s) THEN <<>>
  ELSE IF TagAt(s, p)
       THEN StripTags(s, SkipClass(s, p + 1, TagChar))
       ELSE <<s[p]>> \o StripTags(s, p + 1)

\* .replace(/<High>|<Medium>|<Low>/g, "") on the three glyphs
StripGlyphs(s) == SelectSeq(s, LAMBDA c : c \notin Glyphs)

StatusWords == <<sTodo, sInProgress, sDone, sCancelled>>

\* /\s+#(todo|in-progress|done|cancelled)\b/i matched at position p of s:
\* the position after the match, 0 when there is no match at p
StatusTagEnd(s, p) ==
  LET h == SkipClass(s, p, WS)
      hits == {k \in 1..4 :
                 /\ AtCI(s, h + 1, StatusWords[k])
                 /\ \/ h + 1 + Len(StatusWords[k]) > Len(s)
                    \/ s[h + 1 + Len(StatusWords[k])] \notin WordChar}
  IN  IF /\ p <= Len(s)
         /\ s[p] \in WS
         /\ h <= Len(s)
         /\ s[h] = "#"
         /\ hits # {}
      THEN h + 1 + Len(StatusWords[CHOOSE k \in hits : \A m \in hits : k <= m])
      ELSE 0

\* .replace(/\s+#(todo|in-progress|done|cancelled)\b/gi, "")
RECURSIVE StripStatusTags(_, _)
StripStatusTags(s, p) ==
  IF p > Len(s) THEN <<>>
  ELSE IF StatusTagEnd(s, p) # 0
       THEN StripStatusTags(s, StatusTagEnd(s, p))
       ELSE <<s[p]>> \o StripStatusTags(s, p + 1)

\* titleCandidate
TitleCandidate(rest) ==
  Trim(OnValue(LAMBDA s : StripStatusTags(s, 1), StripGlyphs(StripTags(rest, 1))))

\* Title without the fallbacks: the stripped remainder as it is
TitleNoFallback(rest) == TitleCandidate(rest)

\* Title without the fallback to the remainder
TitleNoRest(rest) ==
  IF TitleCandidate(rest) # <<>> THEN TitleCandidate(rest) ELSE sUntitled

\* title = titleCandidate || rest || "<untitled task>"
Title(rest) ==
  IF TitleCandidate(rest) # <<>> THEN TitleCandidate(rest)
  ELSE IF rest # <<>> THEN rest
  ELSE sUntitled

\* /in[-\s]*progress/i.test(rest)
HasInProgress(rest) ==
  \E p \in 1..Len(rest) :
     /\ AtCI(rest, p, sIn)
     /\ AtCI(rest, SkipClass(rest, p + 2, WS \cup {"-"}), sProgress)

\* /cancel/i.test(rest)
HasCancel(rest) == \E p \in 1..Len(rest) : AtCI(rest, p, sCancel)

\* Status with the two overrides in the other order: in-progress is applied
\* last
StatusInProgressLast(box, rest) ==
  LET s0 == IF Lower(box) = "x" THEN sDone ELSE sTodo
      s1 == IF HasCancel(rest) THEN sCancelled ELSE s0
  IN  IF HasInProgress(rest) THEN sInProgress ELSE s1

\* Status with the checkbox deciding first: a checked box is done
StatusBoxFirst(box, rest) ==
  IF Lower(box) = "x" THEN sDone
  ELSE IF HasCancel(rest) THEN sCancelled
  ELSE IF HasInProgress(rest) THEN sInProgress
  ELSE sTodo

\* the status of a checklist line: checkbox default, then the two overrides
\* in the order of the source
Status(box, rest) ==
  LET s0 == IF Lower(box) = "x" THEN sDone ELSE sTodo
      s1 == IF HasInProgress(rest) THEN sInProgress ELSE s0
  IN  IF HasCancel(rest) THEN sCancelled ELSE s1

\* /^\s{2,}([A-Za-z0-9_-]+)::\s*(.*)$/.exec(metaLine): None, or
\* Some([key |-> fieldMatch[1], value |-> fieldMatch[2]])
MatchField(l) ==
  LET k0 == SkipClass(l, 1, WS)
      k1 == SkipClass(l, k0, KeyChar)
      v0 == SkipClass(l, k1 + 2, WS)
  IN  IF /\ k0 >= 3
         /\ k1 > k0
         /\ At(l, k1, <<":", ":">>)
         /\ NoLineBreak(l, v0)
      THEN Some([key |-> SubSeq(l, k0, k1 - 1), value |-> SubSeq(l, v0, Len(l))])
      ELSE None

\* /^\s{2,}-\s+/.test(metaLine)
IsBullet(l) ==
  LET d == SkipClass(l, 1, WS)
  IN  d >= 3 /\ d + 1 <= Len(l) /\ l[d] = "-" /\ l[d + 1] \in WS

\* metaLine.replace(/^\s{2,}-\s*/, "") of a line that passed IsBullet
BulletText(l) == SubSeq(l, SkipClass(l, SkipClass(l, 1, WS) + 1, WS), Len(l))

\* a line the metadata loop consumes
IsMetaLine(l) == MatchField(l) # None \/ IsBullet(l)

\* the keys of meta that the record is built from, and the status key the
\* serializer writes; any other key is stored in meta and never read
MetaKeys == {sDescription, sCreated, sDue, sPriority, sStatus}
EmptyMeta == [k \in MetaKeys |-> None]

\* a JavaScript truthiness test of an optional string
Truthy(o) == o # None /\ o[1] # <<>>

\* meta[key.toLowerCase()] = value.trim()
SetMeta(meta, key, value) ==
  IF LowerStr(key) \in MetaKeys
  THEN [meta EXCEPT ![LowerStr(key)] = Some(Trim(value))]
  ELSE meta

\* the description bullet fallback
AddBullet(meta, d) ==
  [meta EXCEPT ![sDescription] =
     IF Truthy(@) THEN Some(@[1] \o <<LF>> \o d) ELSE Some(d)]

\* the inner loop "for (; j < lines.length; j++)" from index j with meta:
\* the index at which it stops and the meta it has built
RECURSIVE ScanMeta(_, _, _)
ScanMeta(lines, j, meta) ==
  IF j >= Len(lines) THEN [j |-> j, meta |-> meta]
  ELSE IF MatchField(LineAt(lines, j)) # None
       THEN ScanMeta(lines, j + 1,
                     SetMeta(meta, MatchField(LineAt(lines, j))[1].key,
                                   MatchField(LineAt(lines, j))[1].value))
       ELSE IF IsBullet(LineAt(lines, j))
            THEN ScanMeta(lines, j + 1,
                          AddBullet(meta, BulletText(LineAt(lines, j))))
            ELSE [j |-> j, meta |-> meta]

\* the object literal of tasks.push
TaskRecord(i, line, box, rest, sc) ==
  [startLine |-> i,
   endLine |-> sc.j - 1,
   checkbox |-> <<"[", box, "]">>,
   title |-> Title(rest),
   description |-> sc.meta[sDescription],
   created |-> sc.meta[sCreated],
   due |-> sc.meta[sDue],
   tags |-> Tags(rest),
   priority |-> sc.meta[sPriority],
   status |-> Status(box, rest),
   raw |-> line]

\* TaskAt with endLine one too far (j instead of j - 1)
TaskAtEndOff(lines, i) ==
  LET m == MatchChecklist(LineAt(lines, i))[1]
      rest == Trim(m.rest)
      sc == ScanMeta(lines, i + 1, EmptyMeta)
  IN  [startLine |-> i,
       endLine |-> sc.j,
       checkbox |-> <<"[", m.box, "]">>,
       title |-> Title(rest),
       description |-> sc.meta[sDescription],
       created |-> sc.meta[sCreated],
       due |-> sc.meta[sDue],
       tags |-> Tags(rest),
       priority |-> sc.meta[sPriority],
       status |-> Status(m.box, rest),
       raw |-> LineAt(lines, i)]

\* the record pushed for the checklist line at index i
TaskAt(lines, i) ==
  LET m == MatchChecklist(LineAt(lines, i))[1]
  IN  OnValue(LAMBDA rest :
        OnValue(LAMBDA sc : TaskRecord(i, LineAt(lines, i), m.box, rest, sc),
                ScanMeta(lines, i + 1, EmptyMeta)),
        Trim(m.rest))

\* ParseFrom without "i = j - 1": the scan resumes on the next line
RECURSIVE ParseFromNoSkip(_, _)
ParseFromNoSkip(lines, i) ==
  IF i >= Len(lines) THEN <<>>
  ELSE IF MatchChecklist(LineAt(lines, i)) = None
       THEN ParseFromNoSkip(lines, i + 1)
       ELSE <<TaskAt(lines, i)>> \o ParseFromNoSkip(lines, i + 1)

\* the outer loop "for (let i = 0; i < lines.length; i++)" from index i
RECURSIVE ParseFrom(_, _)
ParseFrom(lines, i) ==
  IF i >= Len(lines) THEN <<>>
  ELSE IF MatchChecklist(LineAt(lines, i)) = None
       THEN ParseFrom(lines, i + 1)
       ELSE <<TaskAt(lines, i)>> \o ParseFrom(lines, TaskAt(lines, i).endLine + 1)

parseTasks(content) == ParseFrom(SplitCRLF(content), 0)

(***************************************************************************)
(* serializeTask (taskParser.ts).  A payload is a record whose optional    *)
(* fields are None or Some(string); tags is None or Some(array).           *)
(***************************************************************************)
\* `${v}` of a string that may be undefined
Interp(o) == IF o = None THEN <<"u","n","d","e","f","i","n","e","d">> ELSE o[1]

PriorityEmoji(priority) ==
  IF priority = Some(sHigh) THEN <<GlyphHigh>>
  ELSE IF priority = Some(sMedium) THEN <<GlyphMedium>>
  ELSE IF priority = Some(sLow) THEN <<GlyphLow>>
  ELSE <<>>

FirstLine(task) ==
  LET checkbox == IF task.checkbox = None THEN sOpenBox ELSE task.checkbox[1]
      tagsPart == Join(IF task.tags = None THEN <<>> ELSE task.tags[1], <<" ">>)
      statusInline == IF Truthy(task.status) /\ task.status # Some(sTodo)
                      THEN <<" ", "#">> \o task.status[1] ELSE <<>>
  IN  <<"-", " ">> \o checkbox \o <<" ">> \o Interp(task.title)
        \o (IF tagsPart # <<>> THEN <<" ">> \o tagsPart ELSE <<>>)
        \o (IF PriorityEmoji(task.priority) # <<>>
            THEN <<" ">> \o PriorityEmoji(task.priority) ELSE <<>>)
        \o statusInline

\* `  ${key}:: ${value}`
FieldLine(key, value) == <<" ", " ">> \o key \o <<":", ":", " ">> \o value

\* the meta array with the description pushed first
MetaLinesDescriptionFirst(task) ==
  (IF Truthy(task.description)
   THEN <<FieldLine(sDescription, task.description[1])>> ELSE <<>>)
  \o (IF Truthy(task.created) THEN <<FieldLine(sCreated, task.created[1])>> ELSE <<>>)
  \o (IF Truthy(task.due) THEN <<FieldLine(sDue, task.due[1])>> ELSE <<>>)
  \o (IF Truthy(task.priority) THEN <<FieldLine(sPriority, task.priority[1])>> ELSE <<>>)
  \o (IF Truthy(task.status) THEN <<FieldLine(sStatus, task.status[1])>> ELSE <<>>)

\* the meta array, in the order of the pushes
MetaLines(task) ==
  (IF Truthy(task.created) THEN <<FieldLine(sCreated, task.created[1])>> ELSE <<>>)
  \o (IF Truthy(task.due) THEN <<FieldLine(sDue, task.due[1])>> ELSE <<>>)
  \o (IF Truthy(task.priority) THEN <<FieldLine(sPriority, task.priority[1])>> ELSE <<>>)
  \o (IF Truthy(task.status) THEN <<FieldLine(sStatus, task.status[1])>> ELSE <<>>)
  \o (IF Truthy(task.description)
      THEN <<FieldLine(sDescription, task.description[1])>> ELSE <<>>)

serializeTask(task) == Join(<<FirstLine(task)>> \o MetaLines(task), <<LF>>)

(***************************************************************************)
(* State.                                                                  *)
(***************************************************************************)
VARIABLES
  content,   \* the text of the active file, as vault.read returns it
  tasks,     \* the records of the last parseTasks call (the cards of the view)
  payload,   \* None, or Some(the payload last given to serializeTask)
  block,     \* None, or Some(the text serializeTask returned for payload)
  pc,        \* position of the caller ("input", "serialized", "scan",
             \* "parsed") or of TaskView.render ("idle", "reading", "parsing")
  log,       \* history: one entry per file modification, oldest first
  readBuf,   \* None, or Some(the text vault.read gave the render in progress)
  scanLine,  \* the index i of the outer loop of parseTasks
  scanLines  \* the array lines of parseTasks while it scans

vars == <<content, tasks, payload, block, pc, log, readBuf, scanLine, scanLines>>

(***************************************************************************)
(* Bounds and the inputs drawn within them.                                *)
(***************************************************************************)
\* pieces concatenated into the remainder of one checklist line
MaxPieces == 3
\* lines of a document of several lines
MaxLines == 3

SeqsUpTo(S, n) == UNION {[1..k -> S] : k \in 0..n}
Concat(q) == Join(q, <<>>)

\* the examples of the specification and of the header comment of taskParser.ts
exTagDedup == <<"-"," ","["," ","]"," ","B","u","y"," ","m","i","l","k"," ",
  "#","h","o","m","e"," ","#","h","o","m","e"," ","#","e","r","r","a","n",
  "d">>
exOverride == <<"-"," ","[","x","]"," ","F","i","n","i","s","h"," ","r","e",
  "p","o","r","t"," ","#","c","a","n","c","e","l","l","e","d","-","i","s",
  "h"," ","i","n"," ","p","r","o","g","r","e","s","s">>
exUrgent == <<"-"," ","["," ","]"," ","#","u","r","g","e","n","t">>
exBoundary == <<"-"," ","["," ","]"," ","W","r","i","t","e"," ","s","p","e",
  "c",LF," "," ","c","r","e","a","t","e","d",":",":"," ","2","0","2","6",
  "-","0","1","-","0","8",LF," "," ","d","u","e",":",":"," ","2","0","2",
  "6","-","0","1","-","1","0",LF,"N","o","t"," ","a"," ","t","a","s","k",
  " ","l","i","n","e",".">>
exHeader == <<"-"," ","["," ","]"," ","T","i","t","l","e"," ","#","t","a",
  "g","1"," ","#","t","a","g","2"," ","U+1F53A",LF," "," ","c","r","e","a",
  "t","e","d",":",":"," ","2","0","2","6","-","0","1","-","0","8",LF," ",
  " ","d","u","e",":",":"," ","2","0","2","6","-","0","1","-","1","0",LF,
  " "," ","p","r","i","o","r","i","t","y",":",":"," ","H","i","g","h",LF,
  " "," ","s","t","a","t","u","s",":",":"," ","t","o","d","o",LF," "," ",
  "d","e","s","c","r","i","p","t","i","o","n",":",":"," ","S","o","m","e",
  " ","t","e","x","t">>
exCRLF == <<"-"," ","[","X","]"," ","a",CR,LF," "," ","d","u","e",":",":",
  " ","1",CR,LF,CR,LF,"-"," ","[","-","]"," ","b",CR>>
exGlyphTag == <<"-"," ","["," ","]"," ","a"," ","#","U+1F53A","d","o","n",
  "e"," ","b">>
\* a block in the bullet dialect of the specification
exBulletDialect == <<"-"," ","["," ","]"," ","a",LF," "," ","-"," ","C","r",
  "e","a","t","e","d",":"," ","2","0","2","6","-","0","1","-","0","8",LF,
  " "," ","-"," ","D","u","e",":"," ","2","0","2","6","-","0","1","-","1",
  "0">>
\* priority lines whose value is not one of Low, Medium, High
exBadPriority == <<"-"," ","["," ","]"," ","a",LF," "," ","p","r","i","o",
  "r","i","t","y",":",":"," ","U","r","g","e","n","t",LF,LF,"-"," ","["," ",
  "]"," ","b",LF," "," ","p","r","i","o","r","i","t","y",":",":"," ","h",
  "i","g","h">>
ExampleDocs ==
  {exTagDedup, exOverride, exUrgent, exBoundary, exHeader, exCRLF, exGlyphTag,
   exBulletDialect, exBadPriority}

\* fragments of a checklist line: text, tags, a glyph, status keywords
Pieces == {
  <<"a"," ">>,
  <<"#","h"," ">>,
  <<"#","e"," ">>,
  <<"#","h">>,
  <<"U+1F53A">>,
  <<"i","n"," ","p","r","o","g","r","e","s","s"," ">>,
  <<"I","n","-","P","r","o","g","r","e","s","s">>,
  <<"C","a","n","c","e","l">>,
  <<"b">>}

\* one checklist line: every checkbox character, then up to MaxPieces pieces
RichLines ==
  {<<"-", " ", "[", b, "]", " ">> \o Concat(q) :
     b \in BoxChar, q \in SeqsUpTo(Pieces, MaxPieces)}

\* lines of a document: checklist lines, metadata lines of both shapes, an
\* indented line without key, prose, a blank line, a field indented too little
LinePool == {
  <<"-"," ","["," ","]"," ","a">>,
  <<"-"," ","[","x","]"," ","b"," ","#","h">>,
  <<" "," ","-"," ","["," ","]"," ","c">>,
  <<" "," ","d","u","e",":",":"," ","1">>,
  <<" "," ","S","t","a","t","u","s",":",":"," ","d","o","n","e">>,
  <<" "," ","-"," ","d">>,
  <<" "," ","e">>,
  <<"p">>,
  <<>>,
  <<" ","d","u","e",":",":"," ","2">>}

\* documents of up to MaxLines lines of LinePool
MultiDocs == {Join(q, <<LF>>) : q \in SeqsUpTo(LinePool, MaxLines)}

ParseDocs == RichLines \cup MultiDocs \cup ExampleDocs

(***************************************************************************)
(* parseTasks as a caller sees it: a document is given, parseTasks is      *)
(* applied to it once.                                                     *)
(***************************************************************************)
InitParse ==
  /\ content \in ParseDocs
  /\ tasks = <<>>
  /\ payload = None
  /\ block = None
  /\ pc = "input"
  /\ log = <<>>
  /\ readBuf = None
  /\ scanLine = 0
  /\ scanLines = <<>>

Parse ==
  /\ pc = "input"
  /\ tasks' = parseTasks(content)
  /\ pc' = "parsed"
  /\ UNCHANGED <<content, payload, block, log, readBuf, scanLine, scanLines>>

NextParse == Parse

SpecParse == InitParse /\ [][NextParse]_vars

(***************************************************************************)
(* parseTasks step by step: one step per iteration of the outer loop       *)
(* "for (let i = 0; i < lines.length; i++)", scanLine being i at the loop  *)
(* test.  The inner loop of an iteration is ScanMeta.                      *)
(***************************************************************************)
MaxScanLines == 3

\* the lines of the scanned documents: a checklist line, an inline field, a
\* bullet, a bare indented line, prose
ScanLinePool == {
  <<"-"," ","["," ","]"," ","a">>,
  <<" "," ","d","u","e",":",":"," ","1">>,
  <<" "," ","-"," ","d">>,
  <<" "," ","e">>,
  <<"p">>}

\* two tasks with a blank line between them, the text ending in a line break
scanTwoTasks == <<"-"," ","["," ","]"," ","a",LF," "," ","d","u","e",":",
  ":"," ","1",LF,LF,"-"," ","[","x","]"," ","b",LF>>
ScanDocs ==
  {Join(q, <<LF>>) : q \in SeqsUpTo(ScanLinePool, MaxScanLines)}
    \cup {scanTwoTasks}

InitScan ==
  /\ content \in ScanDocs
  /\ tasks = <<>>
  /\ payload = None
  /\ block = None
  /\ pc = "scan"
  /\ log = <<>>
  /\ readBuf = None
  /\ scanLine = 0
  /\ scanLines = SplitCRLF(content)

\* the index after "i = j - 1" and the "i++" of the loop, without the "i++"
NextIndexNoIncrement(lines, i) == TaskAt(lines, i).endLine

\* the index at the next loop test after the iteration that pushed the
\* record of line i: "i = j - 1", then "i++"
NextIndex(lines, i) == TaskAt(lines, i).endLine + 1

\* an iteration on a line that is no checklist line: "if (!match) continue"
ScanSkip ==
  /\ pc = "scan"
  /\ scanLine < Len(scanLines)
  /\ MatchChecklist(LineAt(scanLines, scanLine)) = None
  /\ scanLine' = scanLine + 1
  /\ UNCHANGED <<content, tasks, payload, block, pc, log, readBuf, scanLines>>

\* an iteration on a checklist line: the metadata loop, tasks.push, i = j - 1
ScanTask ==
  /\ pc = "scan"
  /\ scanLine < Len(scanLines)
  /\ MatchChecklist(LineAt(scanLines, scanLine)) # None
  /\ tasks' = Append(tasks, TaskAt(scanLines, scanLine))
  /\ scanLine' = NextIndex(scanLines, scanLine)
  /\ UNCHANGED <<content, payload, block, pc, log, readBuf, scanLines>>

\* the loop test fails: return tasks
ScanReturn ==
  /\ pc = "scan"
  /\ scanLine >= Len(scanLines)
  /\ pc' = "parsed"
  /\ UNCHANGED <<content, tasks, payload, block, log, readBuf, scanLine, scanLines>>

NextScan == ScanSkip \/ ScanTask \/ ScanReturn

SpecScan == InitScan /\ [][NextScan]_vars

\* parseTasks is synchronous code: once called, it runs its next step
SpecScanFair == SpecScan /\ WF_vars(NextScan)

(***************************************************************************)
(* serializeTask as a caller sees it: a payload is given, serializeTask is *)
(* applied to it, and the text it returns is parsed back.                  *)
(***************************************************************************)
\* tags of a payload
MaxTags == 2

sDate1 == <<"2","0","2","6","-","0","1","-","0","8">>
sDate2 == <<"2","0","2","6","-","0","1","-","1","0">>
TagPool == {<<"#","h">>, <<"#","e">>}

Payloads ==
  [checkbox : {None, Some(sOpenBox), Some(sCheckedBox)},
   title : {None, Some(<<>>), Some(<<"A">>)},
   description : {None, Some(<<"d">>), Some(<<"d", LF, "e">>)},
   created : {None, Some(sDate1)},
   due : {None, Some(sDate2)},
   tags : {None} \cup {Some(q) : q \in SeqsUpTo(TagPool, MaxTags)},
   priority : {None, Some(sLow), Some(sMedium), Some(sHigh)},
   status : {None, Some(sTodo), Some(sInProgress), Some(sDone), Some(sCancelled)}]

InitSerialize ==
  /\ content = <<>>
  /\ tasks = <<>>
  /\ payload \in {Some(r) : r \in Payloads}
  /\ block = None
  /\ pc = "input"
  /\ log = <<>>
  /\ readBuf = None
  /\ scanLine = 0
  /\ scanLines = <<>>

\* const block = serializeTask({...}): the function has no throw statement,
\* every call returns a string
Serialize ==
  /\ pc = "input"
  /\ payload # None
  /\ block' = Some(serializeTask(payload[1]))
  /\ pc' = "serialized"
  /\ UNCHANGED <<content, tasks, payload, log, readBuf, scanLine, scanLines>>

\* the returned block becomes the text of a document, which is parsed
ParseBack ==
  /\ pc = "serialized"
  /\ content' = block[1]
  /\ tasks' = parseTasks(block[1])
  /\ pc' = "parsed"
  /\ UNCHANGED <<payload, block, log, readBuf, scanLine, scanLines>>

NextSerialize == Serialize \/ ParseBack

SpecSerialize == InitSerialize /\ [][NextSerialize]_vars

(***************************************************************************)
(* The file modifications of QuickTaskPlugin (main.ts).  Each is given the *)
(* text vault.read returned and yields the text handed to vault.modify.    *)
(***************************************************************************)
\* lines.slice(a, b)
Slice(lines, a, b) ==
  IF a >= Len(lines) \/ a >= b THEN <<>>
  ELSE SubSeq(lines, a + 1, IF b > Len(lines) THEN Len(lines) ELSE b)

\* parts.filter(Boolean).join("\n")
JoinTruthy(parts) == Join(SelectSeq(parts, LAMBDA x : x # <<>>), <<LF>>)

\* replaceTask: newContent
replaceTaskText(text, original, newPayload) ==
  LET lines == SplitLF(text)
      newBlock == serializeTask(newPayload)
      before == Join(Slice(lines, 0, original.startLine), <<LF>>)
      after == Join(Slice(lines, original.endLine + 1, Len(lines)), <<LF>>)
  IN  JoinTruthy(<<before, newBlock, after>>)

\* deleteTask with endLine taken as exclusive: slice(task.endLine)
deleteTaskTextEndExclusive(text, task) ==
  LET lines == SplitLF(text)
      before == Join(Slice(lines, 0, task.startLine), <<LF>>)
      after == Join(Slice(lines, task.endLine, Len(lines)), <<LF>>)
  IN  JoinTruthy(<<before, after>>)

\* deleteTask: newContent
deleteTaskText(text, task) ==
  LET lines == SplitLF(text)
      before == Join(Slice(lines, 0, task.startLine), <<LF>>)
      after == Join(Slice(lines, task.endLine + 1, Len(lines)), <<LF>>)
  IN  JoinTruthy(<<before, after>>)

\* positions of the matches of /\[([ xX\-])\]/ in line
BoxPositions(line) ==
  {p \in 1..(Len(line) - 2) :
     line[p] = "[" /\ line[p + 1] \in BoxChar /\ line[p + 2] = "]"}

\* ToggleBox without toLowerCase: "[X]" is not seen as checked
ToggleBoxCaseSensitive(line) ==
  IF BoxPositions(line) = {} THEN line
  ELSE LET p == CHOOSE a \in BoxPositions(line) : \A b \in BoxPositions(line) : a <= b
       IN  SubSeq(line, 1, p - 1)
             \o (IF line[p + 1] = "x" THEN sOpenBox ELSE sCheckedBox)
             \o SubSeq(line, p + 3, Len(line))

\* toggled = line.replace(/\[([ xX\-])\]/, ...): the first match is replaced
ToggleBox(line) ==
  IF BoxPositions(line) = {} THEN line
  ELSE LET p == CHOOSE a \in BoxPositions(line) : \A b \in BoxPositions(line) : a <= b
       IN  SubSeq(line, 1, p - 1)
             \o (IF Lower(line[p + 1]) = "x" THEN sOpenBox ELSE sCheckedBox)
             \o SubSeq(line, p + 3, Len(line))

\* /^\s{2,}status::/i.test(lm)
IsStatusLine(lm) ==
  LET k == SkipClass(lm, 1, WS)
  IN  k >= 3 /\ AtCI(lm, k, sStatus \o <<":", ":">>)

sStatusDone == <<" ", " ">> \o sStatus \o <<":", ":", " ">> \o sDone
CompletedLine(now) == <<" ", " ">> \o sCompleted \o <<":", ":", " ">> \o now

\* toggleDone: the text given to vault.modify.  lines[task.startLine] must
\* exist (the callers below guard it; line.replace throws otherwise)
toggleDoneText(text, task, now) ==
  LET lines == SplitLF(text)
      toggled == ToggleBox(LineAt(lines, task.startLine))
      lines1 == [lines EXCEPT ![task.startLine + 1] = toggled]
      hits == {i \in (task.startLine + 1)..task.endLine :
                 i < Len(lines1) /\ IsStatusLine(LineAt(lines1, i))}
      checked == Includes(toggled, sCheckedBox)
      lines2 ==
        IF hits # {}
        THEN LET i == CHOOSE a \in hits : \A b \in hits : a <= b
             IN  IF checked
                 THEN [lines1 EXCEPT ![i + 1] = sStatusDone]
                 ELSE Slice(lines1, 0, i) \o Slice(lines1, i + 1, Len(lines1))
        ELSE IF checked
             THEN Slice(lines1, 0, task.startLine + 1)
                    \o <<sStatusDone, CompletedLine(now)>>
                    \o Slice(lines1, task.startLine + 1, Len(lines1))
             ELSE lines1
  IN  Join(lines2, <<LF>>)

\* number of the line that holds offset off of text (editor.getCursor().line)
CursorLine(text, off) == Cardinality({k \in 1..off : text[k] = LF})

\* insertTask with the file open in the active editor: the buffer after
\* editor.replaceRange(txt, pos), the cursor being at offset off
insertAtCursorText(text, newPayload, off) ==
  LET blk == serializeTask(newPayload)
      txt == IF CursorLine(text, off) = 0 /\ Trim(text) = <<>>
             THEN blk \o <<LF>> ELSE <<LF>> \o blk \o <<LF>>
  IN  SubSeq(text, 1, off) \o txt \o SubSeq(text, off + 1, Len(text))

\* insertTask, fallback: append to the end of the file
appendTaskText(text, newPayload) ==
  text \o <<LF, LF>> \o serializeTask(newPayload) \o <<LF>>

(***************************************************************************)
(* The plugin at work on one file: the task view renders the file, the     *)
(* user toggles, deletes, edits and adds tasks through the cards and the   *)
(* modal.  A render is asynchronous: it waits for vault.read, and calls of *)
(* render() that arrive meanwhile are dropped.  vault.modify is taken to   *)
(* succeed and to raise the modify event at once.                          *)
(***************************************************************************)
\* file modifications in one run
MaxEdits == 2

\* todayISO()
sToday == <<"2","0","2","6","-","0","1","-","0","9">>

docTwoTasks == <<"-"," ","[","x","]"," ","a",LF," "," ","d","u","e",":",":",
  " ","1",LF,LF,"-"," ","["," ","]"," ","b">>
docLeadingBlank == <<LF,"-"," ","[","X","]"," ","a">>
docTrailingNewline == <<"-"," ","[","x","]"," ","a",LF>>
docStatusLine == <<"p",LF,"-"," ","["," ","]"," ","a"," ","#","h",LF," ",
  " ","s","t","a","t","u","s",":",":"," ","t","o","d","o",LF,"q">>
docEmpty == <<>>
docCheckedStatus == <<"-"," ","[","x","]"," ","c"," ","[","x","]",LF," ",
  " ","S","t","a","t","u","s",":",":"," ","d","o","n","e",LF," "," ","-",
  " ","d">>
\* what toggleDone writes when it checks the task "- [ ] a"
docToggledOnce == <<"-"," ","[","x","]"," ","a",LF," "," ","s","t","a","t",
  "u","s",":",":"," ","d","o","n","e",LF," "," ","c","o","m","p","l","e",
  "t","e","d",":",":"," ","2","0","2","6","-","0","1","-","0","9">>
InitDocs ==
  {docTwoTasks, docLeadingBlank, docTrailingNewline, docStatusLine, docEmpty,
   docCheckedStatus, docToggledOnce}

\* what TaskModal hands to onSubmit on Save: a trimmed non-empty title, a
\* trimmed description or undefined, a due date or undefined, the tags split
\* at white space, one of the three priorities, one of the four statuses
ModalForms ==
  {[title |-> <<"n">>, description |-> None, due |-> None,
    tags |-> <<>>, priority |-> sMedium, status |-> sTodo],
   [title |-> <<"n">>, description |-> Some(<<"d", LF, "e">>), due |-> Some(sDate2),
    tags |-> <<<<"#","h">>>>, priority |-> sHigh, status |-> sDone]}

\* the form saved in the add modal
AddForms == {f \in ModalForms : f.status = sDone}

\* the payload openEditModal builds for replaceTask from the card's task
EditPayload(task, f) ==
  [checkbox |-> Some(task.checkbox),
   title |-> Some(f.title),
   description |-> f.description,
   created |-> IF task.created = None THEN Some(sToday) ELSE task.created,
   due |-> f.due,
   tags |-> Some(f.tags),
   priority |-> Some(f.priority),
   status |-> Some(f.status)]

\* the payload openAddModal builds for insertTask
AddPayload(f) ==
  [checkbox |-> Some(sOpenBox),
   title |-> Some(f.title),
   description |-> f.description,
   created |-> Some(sToday),
   due |-> f.due,
   tags |-> Some(f.tags),
   priority |-> Some(f.priority),
   status |-> Some(f.status)]

\* cursor positions tried for an insertion: the start and the end of the text
CursorOffsets(text) == {0, Len(text)}

\* a log entry: the operation, the text it read, the record it was called
\* with (None for an insertion), the payload it serialized (None when it
\* serializes nothing) and the text it wrote
LogEntry(op, task, newPayload, after) ==
  [op |-> op, before |-> content, task |-> task, payload |-> newPayload,
   after |-> after]

Init ==
  /\ content \in InitDocs
  /\ tasks = <<>>
  /\ payload = None
  /\ block = None
  /\ pc = "idle"
  /\ log = <<>>
  /\ readBuf = None
  /\ scanLine = 0
  /\ scanLines = <<>>

\* a call of TaskView.render(): dropped while a render is in progress
\* ("if (this.rendering) return"), else the cards are removed
\* (containerEl.empty()) and the render waits for vault.read
RenderCall ==
  IF pc = "idle"
  THEN pc' = "reading" /\ tasks' = <<>> /\ readBuf' = None
  ELSE UNCHANGED <<pc, tasks, readBuf>>

\* render() called by onOpen or by an active-leaf-change or create event
RenderEvent ==
  /\ RenderCall
  /\ UNCHANGED <<content, payload, block, log, scanLine, scanLines>>

\* the render in progress: vault.read gives the text of the file
RenderRead ==
  /\ pc = "reading"
  /\ readBuf' = Some(content)
  /\ pc' = "parsing"
  /\ UNCHANGED <<content, tasks, payload, block, log, scanLine, scanLines>>

\* the render in progress: parse what was read, one card per record, and
\* clear the rendering flag
RenderFinish ==
  /\ pc = "parsing"
  /\ tasks' = parseTasks(readBuf[1])
  /\ readBuf' = None
  /\ pc' = "idle"
  /\ UNCHANGED <<content, payload, block, log, scanLine, scanLines>>

\* the checkbox of card k: plugin.toggleDone(file, task); the modify event
\* of the vault calls render()
ToggleDone(k) ==
  /\ Len(log) < MaxEdits
  /\ k \in 1..Len(tasks)
  /\ tasks[k].startLine < Len(SplitLF(content))
  /\ content' = toggleDoneText(content, tasks[k], sToday)
  /\ log' = Append(log, LogEntry("toggle", Some(tasks[k]), None, content'))
  /\ RenderCall
  /\ UNCHANGED <<payload, block, scanLine, scanLines>>

\* the Delete button of card k: plugin.deleteTask(file, task), then render()
DeleteTask(k) ==
  /\ Len(log) < MaxEdits
  /\ k \in 1..Len(tasks)
  /\ content' = deleteTaskText(content, tasks[k])
  /\ log' = Append(log, LogEntry("delete", Some(tasks[k]), None, content'))
  /\ RenderCall
  /\ UNCHANGED <<payload, block, scanLine, scanLines>>

\* Save in the edit modal of card k: plugin.replaceTask(file, task, payload),
\* then render()
ReplaceTask(k, f) ==
  /\ Len(log) < MaxEdits
  /\ k \in 1..Len(tasks)
  /\ payload' = Some(EditPayload(tasks[k], f))
  /\ block' = Some(serializeTask(EditPayload(tasks[k], f)))
  /\ content' = replaceTaskText(content, tasks[k], EditPayload(tasks[k], f))
  /\ log' = Append(log, LogEntry("replace", Some(tasks[k]),
                                 Some(EditPayload(tasks[k], f)), content'))
  /\ RenderCall
  /\ UNCHANGED <<scanLine, scanLines>>

\* Save in the add modal (the Add Task button stays in place while a render
\* is in progress): plugin.insertTask(file, payload), at the cursor when the
\* file is open in the active editor, else appended; then render()
InsertTask(f) ==
  /\ Len(log) < MaxEdits
  /\ payload' = Some(AddPayload(f))
  /\ block' = Some(serializeTask(AddPayload(f)))
  /\ \/ \E off \in CursorOffsets(content) :
          content' = insertAtCursorText(content, AddPayload(f), off)
     \/ content' = appendTaskText(content, AddPayload(f))
  /\ log' = Append(log, LogEntry("insert", None, Some(AddPayload(f)), content'))
  /\ RenderCall
  /\ UNCHANGED <<scanLine, scanLines>>

Next ==
  \/ RenderEvent
  \/ RenderRead
  \/ RenderFinish
  \/ \E k \in 1..Len(tasks) : ToggleDone(k)
  \/ \E k \in 1..Len(tasks) : DeleteTask(k)
  \/ \E k \in 1..Len(tasks), f \in ModalForms : ReplaceTask(k, f)
  \/ \E f \in AddForms : InsertTask(f)

Spec == Init /\ [][Next]_vars

\* the step at which a render in progress ends: the rest of render() after
\* the await has run and "finally" has cleared the rendering flag
RenderCompletes == pc = "parsing" /\ pc' = "idle"

\* the steps of Spec that end a render are the RenderFinish steps
RenderCompletesIsRenderFinish == [][RenderCompletes <=> RenderFinish]_vars

\* a render that has started runs to completion: vault.read resolves and
\* the rest of render() runs.  RenderFinish is enabled exactly when pc is
\* "parsing" (parseTasks returns for every text) and always changes pc, so
\* weak fairness of RenderCompletes on pc is weak fairness of RenderFinish;
\* it is stated on pc so that deciding whether the step is enabled does not
\* parse the text that was read
SpecFair == Spec /\ WF_vars(RenderRead) /\ WF_pc(RenderCompletes)

(***************************************************************************)
(* deleteTask as a function of the text and of a record parsed from it: a  *)
(* document is parsed, then one of its records is deleted.                 *)
(***************************************************************************)
InitDelete ==
  /\ content \in MultiDocs \cup ExampleDocs
  /\ tasks = <<>>
  /\ payload = None
  /\ block = None
  /\ pc = "input"
  /\ log = <<>>
  /\ readBuf = None
  /\ scanLine = 0
  /\ scanLines = <<>>

\* plugin.deleteTask(file, task) with record k of the parse
DeleteParsed(k) ==
  /\ pc = "parsed"
  /\ k \in 1..Len(tasks)
  /\ content' = deleteTaskText(content, tasks[k])
  /\ log' = Append(log, LogEntry("delete", Some(tasks[k]), None, content'))
  /\ pc' = "deleted"
  /\ UNCHANGED <<tasks, payload, block, readBuf, scanLine, scanLines>>

NextDelete == Parse \/ \E k \in 1..Len(tasks) : DeleteParsed(k)

SpecDelete == InitDelete /\ [][NextDelete]_vars

(***************************************************************************)
(* Properties of parseTasks, over SpecParse.                               *)
(***************************************************************************)
\* the lines parseTasks scans
DocLines == SplitCRLF(content)

\* const rest = match[2].trim() of the checklist line of record t
RestOf(t) == Trim(MatchChecklist(t.raw)[1].rest)

Parsed == pc = "parsed"

\* C2: the line ranges of the records of one parse are well formed
\* (startLine <= endLine) and strictly increasing: the endLine of a record is
\* below the startLine of the next, so the ranges are pairwise disjoint.
LineRangePartition ==
  Parsed =>
    \A k \in 1..Len(tasks) :
       /\ tasks[k].startLine <= tasks[k].endLine
       /\ k < Len(tasks) => tasks[k].endLine < tasks[k + 1].startLine

\* two records, the first of them with metadata lines
LineRangePartitionWitness ==
  /\ Parsed
  /\ Len(tasks) >= 2
  /\ tasks[1].endLine > tasks[1].startLine

\* the record the lines startLine..endLine of t give when parsed on their own
AloneRecord(t) ==
  ParseFrom(SubSeq(DocLines, t.startLine + 1, t.endLine + 1), 0)

\* C3: endLine is startLine plus the number of metadata lines that directly
\* follow the checklist line; the first line after them that is not a
\* metadata line is outside the range and changes no field of the record
\* (the lines of the range alone give the same record).
MetadataBoundary ==
  Parsed =>
    \A k \in 1..Len(tasks) :
       LET t == tasks[k]
       IN  /\ t.startLine <= t.endLine
           /\ t.endLine < Len(DocLines)
           /\ \A i \in (t.startLine + 1)..t.endLine :
                 IsMetaLine(LineAt(DocLines, i))
           /\ t.endLine + 1 < Len(DocLines) =>
                 ~IsMetaLine(LineAt(DocLines, t.endLine + 1))
           /\ AloneRecord(t) =
                 <<[t EXCEPT !.startLine = 0,
                             !.endLine = t.endLine - t.startLine]>>

\* the example of the specification: the block ends at the due:: line
MetadataBoundaryWitness ==
  /\ Parsed
  /\ content = exBoundary
  /\ Len(tasks) = 1
  /\ tasks[1].startLine = 0
  /\ tasks[1].endLine = 2
  /\ Len(DocLines) = 4

\* C4 as stated: an "in progress" token in the remainder makes the status
\* in-progress, whatever the checkbox is.
InProgressAlwaysWins ==
  Parsed =>
    \A k \in 1..Len(tasks) :
       HasInProgress(RestOf(tasks[k])) => tasks[k].status = sInProgress

\* C4 amended: an "in progress" token in a remainder that does not contain
\* "cancel" makes the status in-progress, whatever the checkbox is; with
\* "cancel" in the remainder the status is cancelled.
InProgressWinsOverCheckbox ==
  Parsed =>
    \A k \in 1..Len(tasks) :
       HasInProgress(RestOf(tasks[k])) =>
          tasks[k].status =
             IF HasCancel(RestOf(tasks[k])) THEN sCancelled ELSE sInProgress

\* a checked box whose line says "in progress" and not "cancel"
InProgressWinsWitness ==
  /\ Parsed
  /\ \E k \in 1..Len(tasks) :
        /\ tasks[k].checkbox = sCheckedBox
        /\ HasInProgress(RestOf(tasks[k]))
        /\ ~HasCancel(RestOf(tasks[k]))
        /\ tasks[k].status = sInProgress

\* position of the first occurrence of v in the sequence a
FirstIndex(a, v) == CHOOSE i \in 1..Len(a) : a[i] = v /\ \A j \in 1..(i - 1) : a[j] # v

\* C5: tags holds every tag token of the remainder exactly once, in the order
\* of the first occurrences; "#home #home #errand" gives <<#home, #errand>>.
TagDedupOrder ==
  Parsed =>
    /\ \A k \in 1..Len(tasks) :
          LET all == TagMatches(RestOf(tasks[k]), 1)
              tg == tasks[k].tags
          IN  /\ Range(tg) = Range(all)
              /\ \A a, b \in 1..Len(tg) : a # b => tg[a] # tg[b]
              /\ \A a, b \in 1..Len(tg) :
                    a < b => FirstIndex(all, tg[a]) < FirstIndex(all, tg[b])
    /\ content = exTagDedup =>
          tasks[1].tags = <<<<"#","h","o","m","e">>, <<"#","e","r","r","a","n","d">>>>

\* a remainder in which a tag occurs twice, around another tag
TagDedupOrderWitness ==
  /\ Parsed
  /\ \E k \in 1..Len(tasks) :
        /\ Len(TagMatches(RestOf(tasks[k]), 1)) = 3
        /\ Len(tasks[k].tags) = 2

\* the remainder is empty once its tag tokens are removed
OnlyTags(rest) == Trim(StripTags(rest, 1)) = <<>>

\* C6 as stated: a remainder that is empty once its tags are removed gives
\* the placeholder title.
EmptyTitleGivesPlaceholder ==
  Parsed =>
    \A k \in 1..Len(tasks) :
       OnlyTags(RestOf(tasks[k])) =>
          tasks[k].title = sUntitled /\ tasks[k].title # <<>>

\* C6 amended: a remainder that is empty once its tags are removed gives the
\* untouched remainder as title ("#urgent" for "- [ ] #urgent"), and the
\* placeholder only when the remainder itself is empty; never the empty string.
EmptyTitleFallsBack ==
  Parsed =>
    \A k \in 1..Len(tasks) :
       OnlyTags(RestOf(tasks[k])) =>
          /\ tasks[k].title =
                IF RestOf(tasks[k]) # <<>> THEN RestOf(tasks[k]) ELSE sUntitled
          /\ tasks[k].title # <<>>

\* the example of the specification: the title is the tag itself
EmptyTitleFallsBackWitness ==
  /\ Parsed
  /\ content = exUrgent
  /\ Len(tasks) = 1
  /\ tasks[1].title = <<"#","u","r","g","e","n","t">>

\* C7: the title is the stripped remainder when that is non-empty, else the
\* trimmed remainder when that is non-empty, else the placeholder; it is
\* never the empty string.
TitleNeverEmpty ==
  Parsed =>
    \A k \in 1..Len(tasks) :
       LET rest == RestOf(tasks[k])
           t == tasks[k].title
       IN  /\ t # <<>>
           /\ TitleCandidate(rest) # <<>> => t = TitleCandidate(rest)
           /\ TitleCandidate(rest) = <<>> /\ rest # <<>> => t = rest
           /\ TitleCandidate(rest) = <<>> /\ rest = <<>> => t = sUntitled

\* a remainder of tags and glyphs only: the title falls back to the remainder
TitleNeverEmptyWitness ==
  /\ Parsed
  /\ \E k \in 1..Len(tasks) :
        /\ TitleCandidate(RestOf(tasks[k])) = <<>>
        /\ RestOf(tasks[k]) # <<>>
        /\ tasks[k].title = RestOf(tasks[k])

(***************************************************************************)
(* Properties of serializeTask, over SpecSerialize.                        *)
(***************************************************************************)
\* task.tags ?? []
TagsOf(r) == IF r.tags = None THEN <<>> ELSE r.tags[1]

\* C1 as stated: a payload with a non-empty title, serialized and parsed
\* back, gives a first record with the same title, the same set of tags and
\* the same priority, status, description, created and due.
RoundTrip ==
  (Parsed /\ payload # None /\ Truthy(payload[1].title)) =>
     /\ Len(tasks) >= 1
     /\ Some(tasks[1].title) = payload[1].title
     /\ Range(tasks[1].tags) = Range(TagsOf(payload[1]))
     /\ tasks[1].priority = payload[1].priority
     /\ Some(tasks[1].status) = payload[1].status
     /\ tasks[1].description = payload[1].description
     /\ tasks[1].created = payload[1].created
     /\ tasks[1].due = payload[1].due

\* C9 as stated: for an empty or missing title serializeTask returns no block.
SerializeRejectsEmptyTitle ==
  (pc \in {"serialized", "parsed"} /\ payload # None /\ ~Truthy(payload[1].title)) =>
     block = None

(***************************************************************************)
(* Properties of the file modifications, over Spec.                        *)
(***************************************************************************)
\* the record of entry e was parsed from the very text the operation read
Fresh(e) == e.task # None /\ e.task[1] \in Range(parseTasks(e.before))

\* checkbox.toLowerCase().includes("x") of a record
Checked(t) == Lower(t.checkbox[2]) = "x"

\* entries n and n + 1 of the log toggle the same task, checked at first, the
\* document being parsed again between the two
ToggledTwice(n) ==
  /\ n + 1 <= Len(log)
  /\ log[n].op = "toggle"
  /\ log[n + 1].op = "toggle"
  /\ Fresh(log[n])
  /\ Fresh(log[n + 1])
  /\ Checked(log[n].task[1])
  /\ log[n + 1].task[1].startLine = log[n].task[1].startLine

\* the records of the text written by entry n that start at the line of the
\* task of entry n
ResultAt(n) ==
  SelectSeq(parseTasks(log[n].after),
            LAMBDA t : t.startLine = log[n].task[1].startLine)

\* C8 as stated: toggling a checked task twice gives back the original
\* checkbox token and the original status.
ToggleTwiceRestoresToken ==
  \A n \in 1..Len(log) :
     ToggledTwice(n) =>
        /\ Len(ResultAt(n + 1)) = 1
        /\ ResultAt(n + 1)[1].checkbox = log[n].task[1].checkbox
        /\ ResultAt(n + 1)[1].status = log[n].task[1].status

\* C8 amended: toggling a checked task twice gives the checked token "[x]"
\* (the original token when that was "[x]"; an original "[X]" comes back in
\* lower case) and the original status.
ToggleTwiceRestoresChecked ==
  \A n \in 1..Len(log) :
     ToggledTwice(n) =>
        /\ Len(ResultAt(n + 1)) = 1
        /\ ResultAt(n + 1)[1].checkbox = sCheckedBox
        /\ log[n].task[1].checkbox = sCheckedBox =>
              ResultAt(n + 1)[1].checkbox = log[n].task[1].checkbox
        /\ ResultAt(n + 1)[1].status = log[n].task[1].status

\* a checked task toggled to open and back to checked
ToggleTwiceWitness ==
  \E n \in 1..Len(log) :
     /\ ToggledTwice(n)
     /\ ~Checked(log[n + 1].task[1])
     /\ ResultAt(n + 1)[1].checkbox = sCheckedBox

\* C10 as stated: replaceTask with a freshly parsed task writes the lines
\* before startLine, the lines of the new block, the lines after endLine,
\* every line outside the range kept in place, blank lines included.
ReplaceFrame ==
  \A n \in 1..Len(log) :
     (log[n].op = "replace" /\ Fresh(log[n])) =>
        LET lines == SplitLF(log[n].before)
            t == log[n].task[1]
        IN  SplitLF(log[n].after) =
              Slice(lines, 0, t.startLine)
                \o SplitLF(serializeTask(log[n].payload[1]))
                \o Slice(lines, t.endLine + 1, Len(lines))

(****************************** C11 ***************************************)

\* C11: every toggleDone, deleteTask and replaceTask issued by the task view
\* is called with a record that parseTasks gives for exactly the text the
\* operation reads and rewrites; a range parsed from an older text is never
\* used for an edit
EditsUseFreshRanges ==
  \A n \in 1..Len(log) :
     log[n].op \in {"toggle", "delete", "replace"} => Fresh(log[n])

(****************************** C12 ***************************************)

\* /^\s{2,}/.test(l): the line is indented by at least two white-space
\* characters
IndentedLine(l) == SkipClass(l, 1, WS) >= 3

\* an indented line that is neither an inline field nor a bullet
BareIndentedLine(l) == IndentedLine(l) /\ ~IsMetaLine(l)

\* C12: the metadata block of a record takes every consecutive indented line
\* after the checklist line and stops only at the first line that is not
\* indented by two or more spaces (so the line after endLine, if any, is not
\* indented), and a bare indented line right after the checklist line is
\* taken into the description
ConsumesEveryIndentedLine ==
  Parsed =>
    \A k \in 1..Len(tasks) :
       LET t == tasks[k]
       IN  t.endLine + 1 < Len(DocLines) =>
             /\ ~IndentedLine(LineAt(DocLines, t.endLine + 1))
             /\ BareIndentedLine(LineAt(DocLines, t.startLine + 1)) =>
                  t.description # None

(****************************** C13 ***************************************)

\* a bullet line "  - Key: value" with Key one of the five field names in
\* any letter case: Some([key, value]), else None
BulletField(l) ==
  IF ~IsBullet(l) THEN None
  ELSE LET t == BulletText(l)
           k1 == SkipClass(t, 1, Letters)
       IN  IF /\ k1 > 1
              /\ k1 <= Len(t)
              /\ t[k1] = ":"
              /\ LowerStr(SubSeq(t, 1, k1 - 1)) \in MetaKeys
           THEN Some([key |-> LowerStr(SubSeq(t, 1, k1 - 1)),
                      value |-> SubSeq(t, k1 + 1, Len(t))])
           ELSE None

\* the line in the inline-field dialect: "  - Key: value" as "  key:: value"
InlineForm(l) ==
  IF BulletField(l) = None THEN l
  ELSE <<" ", " ">> \o BulletField(l)[1].key \o <<":", ":">>
         \o BulletField(l)[1].value

\* the document with every bullet-dialect metadata line in the inline-field
\* dialect
InlineDialect(text) ==
  LET lines == SplitLF(text)
  IN  Join([n \in 1..Len(lines) |-> InlineForm(lines[n])], <<LF>>)

\* C13: a block in the bullet dialect and the same block in the inline-field
\* dialect give records with equal created, due and description
BulletDialectEquivalent ==
  Parsed =>
    LET other == parseTasks(InlineDialect(content))
    IN  /\ Len(other) = Len(tasks)
        /\ \A k \in 1..Len(tasks) :
              /\ tasks[k].created = other[k].created
              /\ tasks[k].due = other[k].due
              /\ tasks[k].description = other[k].description

(****************************** C14 ***************************************)

\* the lower-cased keys of the inline fields in the metadata block of t
BlockKeys(t) ==
  {LowerStr(MatchField(LineAt(DocLines, i))[1].key) :
     i \in {n \in (t.startLine + 1)..t.endLine :
              MatchField(LineAt(DocLines, n)) # None}}

\* a textual priority marker for word (lower case) in rest, letter case
\* ignored: "priority", any colons and white space, word; or "P:" word
TextMarker(rest, word) ==
  \E p \in 1..Len(rest) :
     \/ /\ AtCI(rest, p, sPriority)
        /\ AtCI(rest, SkipClass(rest, p + Len(sPriority), WS \cup {":"}), word)
     \/ AtCI(rest, p, <<"p", ":">> \o word)

\* the priority the checklist line states: High, Medium, Low in this order,
\* by glyph or textual marker, the first that matches
LinePriority(rest) ==
  IF Includes(rest, <<GlyphHigh>>) \/ TextMarker(rest, LowerStr(sHigh))
  THEN Some(sHigh)
  ELSE IF Includes(rest, <<GlyphMedium>>) \/ TextMarker(rest, LowerStr(sMedium))
  THEN Some(sMedium)
  ELSE IF Includes(rest, <<GlyphLow>>) \/ TextMarker(rest, LowerStr(sLow))
  THEN Some(sLow)
  ELSE None

\* C14: a record without priority metadata line has the priority its
\* checklist line states by glyph or textual marker (High before Medium
\* before Low), absent when the line states none
PriorityFromLine ==
  Parsed =>
    \A k \in 1..Len(tasks) :
       sPriority \notin BlockKeys(tasks[k]) =>
          tasks[k].priority = LinePriority(RestOf(tasks[k]))

(****************************** C15 ***************************************)

\* meta["status"] after the metadata loop of record t
MetaStatus(t) == ScanMeta(DocLines, t.startLine + 1, EmptyMeta).meta[sStatus]

\* C15: when the metadata block of a record has a status line whose value is
\* one of todo, in-progress, done, cancelled, the status of the record is
\* that value
StatusMetaOverrides ==
  Parsed =>
    \A k \in 1..Len(tasks) :
       (MetaStatus(tasks[k]) # None /\ MetaStatus(tasks[k])[1] \in Statuses) =>
          tasks[k].status = MetaStatus(tasks[k])[1]

(****************************** C16 ***************************************)

\* C16: the priority of every record is absent or one of Low, Medium, High
PriorityClosedEnum ==
  Parsed =>
    \A k \in 1..Len(tasks) :
       tasks[k].priority = None \/ tasks[k].priority[1] \in Priorities

(****************************** C17 ***************************************)

\* the optional field of a payload that a metadata key names
FieldOf(task, key) ==
  IF key = sDescription THEN task.description
  ELSE IF key = sCreated THEN task.created
  ELSE IF key = sDue THEN task.due
  ELSE IF key = sPriority THEN task.priority
  ELSE task.status

\* the lines "  key:: value" of the present fields of a payload, taken in the
\* given order of keys; a value with line breaks is one entry
RECURSIVE FieldEntries(_, _)
FieldEntries(task, order) ==
  IF order = <<>> THEN <<>>
  ELSE (IF Truthy(FieldOf(task, Head(order)))
        THEN <<<<" ", " ">> \o Head(order) \o <<":", ":", " ">>
                 \o FieldOf(task, Head(order))[1]>>
        ELSE <<>>)
       \o FieldEntries(task, Tail(order))

\* the lines of the block after its main line
LinesAfterMain == Tail(SplitLF(block[1]))

\* C17 as stated: the lines after the main line are one line per present
\* optional field and nothing else, in the order description, created, due,
\* priority, status
MetaOrderDescriptionFirst ==
  (pc = "serialized") =>
     LinesAfterMain =
       FieldEntries(payload[1], <<sDescription, sCreated, sDue, sPriority, sStatus>>)

\* C17 amended: the text after the main line is the entries "  key:: value"
\* of the present optional fields and nothing else, in the order created,
\* due, priority, status, description, joined by line breaks; created, due,
\* priority and status give one line each, a description gives one line per
\* line of its text (the lines after its first are written as they are), and
\* an absent field gives no line
MetaOrderDescriptionLast ==
  (pc = "serialized") =>
     /\ LinesAfterMain =
          SplitLF(Join(FieldEntries(payload[1],
                         <<sCreated, sDue, sPriority, sStatus, sDescription>>),
                       <<LF>>))
          \/ /\ LinesAfterMain = <<>>
             /\ \A key \in MetaKeys : ~Truthy(FieldOf(payload[1], key))
     /\ \A key \in MetaKeys \ {sDescription} :
           Cardinality({n \in 1..Len(LinesAfterMain) :
                          At(LinesAfterMain[n], 1, <<" ", " ">> \o key \o <<":", ":">>)})
             = IF Truthy(FieldOf(payload[1], key)) THEN 1 ELSE 0

\* every optional field is present and the description has two lines
MetaOrderWitness ==
  /\ pc = "serialized"
  /\ \A key \in MetaKeys : Truthy(FieldOf(payload[1], key))
  /\ Len(SplitLF(payload[1].description[1])) = 2
  /\ Len(LinesAfterMain) = 6

(****************************** C18 ***************************************)

\* C18: the main line of every block serializeTask produces, also for a
\* payload whose checkbox the edit flow copied from a parsed record, starts
\* with "- [ ]" or "- [x]"
BinaryCheckboxOnOutput ==
  block # None =>
     \/ At(block[1], 1, <<"-", " ">> \o sOpenBox)
     \/ At(block[1], 1, <<"-", " ">> \o sCheckedBox)

(****************************** C19 ***************************************)

\* rest contains "cancel" in any letter case
ContainsCancel(rest) == Includes(LowerStr(rest), sCancel)

\* rest contains an in-progress token in any letter case: "in", then hyphens
\* and white space only (or nothing), then "progress"
ContainsInProgress(rest) ==
  \E p \in 1..Len(rest), q \in 1..Len(rest) :
     /\ At(LowerStr(rest), p, sIn)
     /\ q >= p + Len(sIn)
     /\ At(LowerStr(rest), q, sProgress)
     /\ \A r \in (p + Len(sIn))..(q - 1) : rest[r] \in WS \cup {"-"}

\* C19: the status of a record is a function of its checklist line alone:
\* cancelled if the remainder contains "cancel", else in-progress if it
\* contains an in-progress token, else done if the bracket character is x or
\* X, else todo; it is always one of the four status values
StatusDerivation ==
  Parsed =>
    \A k \in 1..Len(tasks) :
       LET t == tasks[k]
       IN  /\ t.status \in Statuses
           /\ t.status =
                IF ContainsCancel(RestOf(t)) THEN sCancelled
                ELSE IF ContainsInProgress(RestOf(t)) THEN sInProgress
                ELSE IF t.checkbox[2] \in {"x", "X"} THEN sDone
                ELSE sTodo

\* a checked line with both keywords: the record is cancelled
StatusDerivationWitness ==
  /\ Parsed
  /\ \E k \in 1..Len(tasks) :
        /\ ContainsCancel(RestOf(tasks[k]))
        /\ ContainsInProgress(RestOf(tasks[k]))
        /\ tasks[k].checkbox[2] \in {"x", "X"}
        /\ tasks[k].status = sCancelled

(****************************** C20 ***************************************)

\* the number of records among those pushed so far whose range holds line n
ClaimCount(n) ==
  Cardinality({k \in 1..Len(tasks) :
                 tasks[k].startLine <= n /\ n <= tasks[k].endLine})

\* while the loop runs: the index stays within the document, each line is in
\* the range of at most one record, and only lines before the index are in
\* a range; what is returned is the sequence parseTasks(content)
ScanInvariant ==
  /\ scanLine \in 0..Len(DocLines)
  /\ \A n \in 0..(Len(DocLines) - 1) :
        /\ ClaimCount(n) <= 1
        /\ n >= scanLine => ClaimCount(n) = 0
  /\ \A k \in 1..Len(tasks) : tasks[k].endLine < Len(DocLines)
  /\ pc = "parsed" => tasks = parseTasks(content)

\* C20: for every document parseTasks ends and returns a sequence (possibly
\* empty) without an error; the index of the outer loop is strictly larger
\* at every loop test than at the one before, and each line is in the range
\* of at most one record
ScanTerminates ==
  /\ []ScanInvariant
  /\ [][scanLine' # scanLine => scanLine' > scanLine]_vars
  /\ [][pc = "scan" /\ pc' = "scan" => scanLine' > scanLine]_vars
  /\ <>(pc = "parsed")

\* a returned parse of five lines: a record with a metadata line, a skipped
\* blank line, a second record
ScanTerminatesWitness ==
  /\ pc = "parsed"
  /\ Len(DocLines) = 5
  /\ scanLine = 5
  /\ Len(tasks) = 2
  /\ tasks[1].endLine = tasks[1].startLine + 1
  /\ tasks[2].startLine = tasks[1].endLine + 2

(****************************** C21 ***************************************)

\* the indices of the lines that match the checklist pattern
ChecklistLines ==
  {i \in 0..(Len(DocLines) - 1) : MatchChecklist(LineAt(DocLines, i)) # None}

\* C21: every line that matches the checklist pattern is the startLine of
\* exactly one record and every startLine is such a line, so there are as
\* many records as checklist lines, indented checklist lines that directly
\* follow another task included
EveryChecklistLineYieldsTask ==
  Parsed =>
    /\ \A i \in ChecklistLines :
          Cardinality({k \in 1..Len(tasks) : tasks[k].startLine = i}) = 1
    /\ \A k \in 1..Len(tasks) : tasks[k].startLine \in ChecklistLines
    /\ Len(tasks) = Cardinality(ChecklistLines)

(****************************** C22 ***************************************)

\* C22: the block serializeTask gives for a payload with a non-empty title
\* parses to exactly one record, which starts at line 0 and ends at the last
\* line of the block
SerializedBlockIsOneTask ==
  (pc = "parsed" /\ payload # None /\ block # None /\ Truthy(payload[1].title)) =>
     /\ Len(tasks) = 1
     /\ tasks[1].startLine = 0
     /\ tasks[1].endLine = Len(SplitLF(block[1])) - 1

(****************************** C23 ***************************************)

\* a record given to serializeTask as it is: the fields of QTTask that the
\* parameter of serializeTask names
RecordPayload(t) ==
  [checkbox |-> Some(t.checkbox),
   title |-> Some(t.title),
   description |-> t.description,
   created |-> t.created,
   due |-> t.due,
   tags |-> Some(t.tags),
   priority |-> t.priority,
   status |-> Some(t.status)]

\* the fields of a record that do not depend on its place in the document
ContentOf(t) ==
  <<t.title, t.tags, t.priority, t.status, t.description, t.created, t.due>>

\* C23: for every record t of a parse, the first record of
\* parseTasks(serializeTask(t)) has the title, tags, priority, status,
\* description, created and due of t
ReserializeStable ==
  Parsed =>
    \A k \in 1..Len(tasks) :
       LET back == parseTasks(serializeTask(RecordPayload(tasks[k])))
       IN  /\ Len(back) >= 1
           /\ ContentOf(back[1]) = ContentOf(tasks[k])

(****************************** C24 ***************************************)

\* a line "  completed:: ..." (indented by two or more, any letter case)
IsCompletedLine(l) ==
  LET k == SkipClass(l, 1, WS)
  IN  k >= 3 /\ AtCI(l, k, sCompleted \o <<":", ":">>)

\* the number of lines startLine+1..endLine of record t in text for which
\* Test holds
CountInBlock(text, t, Test(_)) ==
  Cardinality({i \in (t.startLine + 1)..t.endLine :
                 i < Len(SplitLF(text)) /\ Test(LineAt(SplitLF(text), i))})

\* the block of record t in text has at most one status:: line and at most
\* one completed:: line
AtMostOneOfEach(text, t) ==
  /\ CountInBlock(text, t, IsStatusLine) <= 1
  /\ CountInBlock(text, t, IsCompletedLine) <= 1

\* C24: toggleDone on a freshly parsed task whose block has at most one
\* status:: line and at most one completed:: line writes a block with at
\* most one of each, so a sequence of toggles never piles up lines
ToggleDoesNotAccumulate ==
  \A n \in 1..Len(log) :
     (/\ log[n].op = "toggle"
      /\ Fresh(log[n])
      /\ AtMostOneOfEach(log[n].before, log[n].task[1])) =>
        /\ Len(ResultAt(n)) = 1
        /\ AtMostOneOfEach(log[n].after, ResultAt(n)[1])

(****************************** C25 ***************************************)

\* sequence q without its element k
Without(q, k) == SubSeq(q, 1, k - 1) \o SubSeq(q, k + 1, Len(q))

\* the fields of the records of a parse that do not depend on line indices
Contents(q) == [k \in 1..Len(q) |-> ContentOf(q[k])]

\* the index of record t in the parse of text (t is a record of that parse)
IndexIn(text, t) ==
  CHOOSE k \in 1..Len(parseTasks(text)) : parseTasks(text)[k] = t

Displayed == pc = "idle" /\ tasks = parseTasks(content)

\* C26: after every modification of the document either a further
\* modification follows or, every started render running to completion, the
\* view eventually displays the records parsed from the content of the
\* document; so after the last modification it displays the final content
ViewConverges ==
  \A n \in 1..MaxEdits :
     (Len(log) = n) ~> (Len(log) > n \/ Displayed)

====
